---- MODULE Spec2Model ----
(***************************************************************************)
(* Provider dispatch and fallback of main.py: the two handlers             *)
(* generate_images and generate_video, the request models that FastAPI     *)
(* validates before a handler runs, and the response models a handler      *)
(* builds on return.                                                       *)
(*                                                                         *)
(* A Python str is a sequence of one-character strings.  A value the       *)
(* provider's JSON can hold is a tagged record, so that a URL field may    *)
(* hold a string, a number, null, a list or an object, as r.json() allows. *)
(***************************************************************************)
EXTENDS Integers, Sequences, FiniteSets, TLC

VARIABLES KEYAI_API_KEY, hashSeed, laxStr, req

vars == <<KEYAI_API_KEY, hashSeed, laxStr, req>>

(***************************************************************************)
(* Bounds of the model.                                                    *)
(***************************************************************************)
\* handler threads that may run at the same time
NumReq == 2
\* entries in the lists of one provider reply, "images" and "data" together
MaxItems == 2
\* free characters of a prompt (before or after the padding of PadLen)
MaxPromptLen == 3
\* the small image counts tried next to the limits 50 and 51
MaxSmallCount == 3
\* seeds of the per-process string hash
MaxHashSeed == 1

(***************************************************************************)
(* Constants of the program.                                               *)
(***************************************************************************)
MIN_LENGTH == 3
COUNT_GE == 1
COUNT_LE == 50
DURATION_GE == 4
DURATION_LE == 30
DURATION_DEFAULT == 8
SEED_LEN == 40
JOB_MOD == 10000000
HTTP_OK == 200

PICSUM_PREFIX == <<"h", "t", "t", "p", "s", ":", "/", "/", "p", "i", "c", "s", "u", "m", ".", "p", "h", "o", "t", "o", "s", "/", "s", "e", "e", "d", "/">>
PICSUM_SUFFIX == <<"/", "7", "6", "8", "/", "1", "0", "2", "4">>
DEMO_VIDEO == <<"h", "t", "t", "p", "s", ":", "/", "/", "i", "n", "t", "e", "r", "a", "c", "t", "i", "v", "e", "-", "e", "x", "a", "m", "p", "l", "e", "s", ".", "m", "d", "n", ".", "m", "o", "z", "i", "l", "l", "a", ".", "n", "e", "t", "/", "m", "e", "d", "i", "a", "/", "c", "c", "0", "-", "v", "i", "d", "e", "o", "s", "/", "f", "l", "o", "w", "e", "r", ".", "m", "p", "4">>
JOB_IMG == <<"j", "o", "b", "_", "i", "m", "g", "_">>
JOB_VID == <<"j", "o", "b", "_", "v", "i", "d", "_">>
MOCK == "mock"
NANO_BANANA == "key.ai:nano-banana"
VEO == "key.ai:veo-3.1"

(***************************************************************************)
(* Python and JSON values.                                                 *)
(***************************************************************************)
None == [t |-> "null"]
Str(s) == [t |-> "str", s |-> s]
Num(n) == [t |-> "num", n |-> n]
List(items) == [t |-> "list", items |-> items]
Dict(m) == [t |-> "dict", m |-> m]
EmptyMap == [k \in {} |-> None]

\* isinstance(v, dict), isinstance(v, list)
IsDict(v) == v.t = "dict"
IsList(v) == v.t = "list"

\* bool(v): what `if v`, `not v` and `a or b` test
Truthy(v) ==
    CASE v.t = "str" -> v.s # <<>>
      [] v.t = "num" -> v.n # 0
      [] v.t = "list" -> v.items # <<>>
      [] v.t = "dict" -> DOMAIN v.m # {}
      [] OTHER -> FALSE

\* a or b
PyOr(a, b) == IF Truthy(a) THEN a ELSE b

\* k in d
Has(d, k) == k \in DOMAIN d.m

\* d.get(k)
Get(d, k) == IF k \in DOMAIN d.m THEN d.m[k] ELSE None

\* str(n) of a non-negative int
RECURSIVE Digits(_)
Digits(n) ==
    LET d == <<"0", "1", "2", "3", "4", "5", "6", "7", "8", "9">>[(n % 10) + 1]
    IN  IF n < 10 THEN <<d>> ELSE Digits(n \div 10) \o <<d>>

\* mutants of the slice: s[:n - 1], and no slice at all
Prefix_OffByOne(s, n) == SubSeq(s, 1, IF Len(s) < n - 1 THEN Len(s) ELSE n - 1)
Prefix_NoTruncation(s, n) == s

\* s[:n]
Prefix(s, n) == SubSeq(s, 1, IF Len(s) < n THEN Len(s) ELSE n)

\* s.replace(old, new) for one-character old and new
Replace(s, old, new) == [i \in 1..Len(s) |-> IF s[i] = old THEN new ELSE s[i]]

\* ord(c) of the characters the prompts are made of
Ord(c) ==
    CASE c = "a" -> 97
      [] c = " " -> 32
      [] c = "\t" -> 9
      [] OTHER -> 63

\* hash(s): a signed integer, fixed for one process and one string, seeded per
\* process (PYTHONHASHSEED); the mixing function stands for the interpreter's
RECURSIVE Mix(_, _)
Mix(s, h) ==
    IF s = <<>> THEN h ELSE Mix(Tail(s), (h * 31 + Ord(Head(s))) % 67108864)
PyHash(s, seed) == Mix(s, seed * 1000003 % 67108864) - 33554432

\* abs(x)
Abs(x) == IF x < 0 THEN -x ELSE x

\* "job_img_" + str(abs(hash(req.prompt)) % 10_000_000)
JobId(prefix, text, seed) == prefix \o Digits(Abs(PyHash(text, seed)) % JOB_MOD)

(***************************************************************************)
(* Request models: the Field constraints FastAPI checks before the handler *)
(* is called.                                                              *)
(***************************************************************************)
\* mutant: le=50 left out of the count field
ImageGenRequestValid_NoUpperBound(r) ==
    /\ Len(r.prompt) >= MIN_LENGTH
    /\ r.count >= COUNT_GE

ImageGenRequestValid(r) ==
    /\ Len(r.prompt) >= MIN_LENGTH
    /\ r.count >= COUNT_GE
    /\ r.count <= COUNT_LE

VideoGenRequestValid(r) ==
    /\ Len(r.script) >= MIN_LENGTH
    /\ r.duration_seconds >= DURATION_GE
    /\ r.duration_seconds <= DURATION_LE

RequestValid(r) ==
    IF r.kind = "images" THEN ImageGenRequestValid(r) ELSE VideoGenRequestValid(r)

(***************************************************************************)
(* Response models: a field declared str takes a str; an int is turned     *)
(* into its decimal string by the lax builds of the validation library and *)
(* refused by the others; null, a list and an object are refused by all.   *)
(***************************************************************************)
StrFieldOk(v, lax) == v.t = "str" \/ (lax /\ v.t = "num" /\ v.n >= 0)

StrField(v) == IF v.t = "str" THEN v.s ELSE Digits(v.n)

ImageGenResponseOk(images, lax) == \A i \in 1..Len(images) : StrFieldOk(images[i], lax)

ImageGenResponse(job_id, images, provider) ==
    [job_id |-> job_id,
     images |-> [i \in 1..Len(images) |-> StrField(images[i])],
     provider |-> provider]

VideoGenResponseOk(video_url, lax) == StrFieldOk(video_url, lax)

VideoGenResponse(job_id, video_url, provider) ==
    [job_id |-> job_id, video_url |-> StrField(video_url), provider |-> provider]

(***************************************************************************)
(* generate_images, lines 123-127: the URLs read from a parsed reply.      *)
(***************************************************************************)
\* [x.get("url") for x in items if isinstance(x, dict) and x.get("url")]
RECURSIVE UrlsOf(_)
UrlsOf(items) ==
    IF items = <<>> THEN <<>>
    ELSE LET x == Head(items)
         IN  IF IsDict(x) /\ Truthy(Get(x, "url"))
             THEN <<Get(x, "url")>> \o UrlsOf(Tail(items))
             ELSE UrlsOf(Tail(items))

ExtractImageUrls(data) ==
    IF IsDict(data)
    THEN IF Has(data, "images") /\ IsList(data.m["images"])
         THEN UrlsOf(data.m["images"].items)
         ELSE IF Has(data, "data") /\ IsList(data.m["data"])
              THEN UrlsOf(data.m["data"].items)
              ELSE <<>>
    ELSE <<>>

(***************************************************************************)
(* generate_video, lines 169-172: the URL read from a parsed reply.        *)
(***************************************************************************)
\* mutant: the alternate field read first
UrlOrVideoUrl_VideoUrlFirst(d) == PyOr(PyOr(Get(d, "video_url"), Get(d, "url")), Str(<<>>))

\* d.get("url") or d.get("video_url") or ""
UrlOrVideoUrl(d) == PyOr(PyOr(Get(d, "url"), Get(d, "video_url")), Str(<<>>))

ExtractVideoUrl(data, video_url) ==
    IF IsDict(data)
    THEN LET top == UrlOrVideoUrl(data)
         IN  IF ~Truthy(top) /\ Has(data, "data") /\ IsDict(data.m["data"])
             THEN UrlOrVideoUrl(data.m["data"])
             ELSE top
    ELSE video_url

(***************************************************************************)
(* generate_images, lines 137-140: the placeholder URLs.                   *)
(***************************************************************************)
SeedBase(prompt) == Prefix(Replace(prompt, " ", "+"), SEED_LEN)

PlaceholderUrl(seed_base, i) ==
    PICSUM_PREFIX \o seed_base \o <<"-">> \o Digits(i) \o PICSUM_SUFFIX

\* mutant: range(1, req.count)
MockImages_FromOne(prompt, count) ==
    [k \in 1..(count - 1) |-> Str(PlaceholderUrl(SeedBase(prompt), k))]

MockImages(prompt, count) ==
    [k \in 1..count |-> Str(PlaceholderUrl(SeedBase(prompt), k - 1))]

(***************************************************************************)
(* The outbound call and what can come back from it.                       *)
(***************************************************************************)
IMAGE_TIMEOUT == 60
VIDEO_TIMEOUT == 120

\* lines 109-118 and 154-165; style, voice, tone, aspect_ratio and references
\* are passed through to the provider and read nowhere else
ImagePayload(r) ==
    [path |-> "/v1/images/generate", model |-> "nano-banana",
     input |-> [prompt |-> r.prompt, num_images |-> r.count],
     timeout |-> IMAGE_TIMEOUT]

VideoPayload(r) ==
    [path |-> "/v1/video/generate", model |-> "veo-3.1",
     input |-> [script |-> r.script, duration |-> r.duration_seconds],
     timeout |-> VIDEO_TIMEOUT]

\* requests.post raises (connection error, timeout) or returns a response;
\* r.json() raises on a body that is not JSON
Raise(what) == [tag |-> "raise", what |-> what]
Http(status, json) == [tag |-> "http", status |-> status, json |-> json]
Unparseable == [t |-> "invalid"]
NoReply == [tag |-> "none"]

\* the reply reaches `data = r.json()` with a parsed body
Parsed(reply) ==
    /\ reply.tag = "http"
    /\ reply.status = HTTP_OK
    /\ reply.json # Unparseable

(***************************************************************************)
(* Inputs.                                                                 *)
(***************************************************************************)
Chars == {"a", " ", "\t"}
Strings(n) == UNION {[1..k -> Chars] : k \in 0..n}
PadLen == SEED_LEN - 2
Pad == [i \in 1..PadLen |-> "a"]

\* every short prompt, and the same behind a padding that carries its last
\* characters across the 40th position
Prompts == Strings(MaxPromptLen) \cup {Pad \o s : s \in Strings(MaxPromptLen)}
FewPrompts == {<<"a", "a">>, <<"a", " ", "a">>}
Counts == (0..MaxSmallCount) \cup {COUNT_LE, COUNT_LE + 1}
Durations == {DURATION_GE - 1, DURATION_GE, DURATION_DEFAULT, DURATION_LE, DURATION_LE + 1}

ImageReq(prompt, count) == [kind |-> "images", prompt |-> prompt, count |-> count]
VideoReq(script, d) == [kind |-> "video", script |-> script, duration_seconds |-> d]
NoRequest == [kind |-> "none"]

\* what a URL field of a reply may hold
A == Str(<<"a">>)
B == Str(<<"b">>)
Object == Dict([href |-> A])
UrlValues == {Str(<<>>), A, B, Num(7), Object}

\* the entries of a reply's list: a non-object, an object without "url", an
\* object with "url"
Items == {Str(<<"x">>), Dict(EmptyMap)} \cup {Dict([url |-> v]) : v \in UrlValues}
ItemLists(n) == UNION {[1..k -> Items] : k \in 0..n}

Absent == [t |-> "absent"]
\* the object with the fields of f that are present
Object2(k1, v1, k2, v2) ==
    Dict([k \in {k \in {k1, k2} : (IF k = k1 THEN v1 ELSE v2) # Absent} |->
            IF k = k1 THEN v1 ELSE v2])

ListFields(n) == {Absent, Str(<<"x">>)} \cup {List(l) : l \in ItemLists(n)}
Size(f) == IF IsList(f) THEN Len(f.items) ELSE 0

ImageBodies ==
    {List(<<Dict([url |-> A])>>), Dict([unexpected |-> Str(<<"s", "h", "a", "p", "e">>)])}
    \cup {Object2("images", i, "data", d) :
            <<i, d>> \in {p \in ListFields(MaxItems) \X ListFields(MaxItems) :
                            Size(p[1]) + Size(p[2]) <= MaxItems}}
FewImageBodies ==
    {Dict([unexpected |-> A]), Dict([images |-> List(<<Dict([url |-> A])>>)])}

VideoFields == {Absent, Str(<<>>), A, B, Num(7)}
VideoObjects == {Object2("url", u, "video_url", v) : <<u, v>> \in VideoFields \X VideoFields}
VideoBodies ==
    {List(<<A>>)}
    \cup {Dict(o.m @@ d.m) :
            <<o, d>> \in VideoObjects
                         \X ({Dict(EmptyMap), Dict([data |-> A])}
                             \cup {Dict([data |-> n]) : n \in VideoObjects})}
    \cup {Dict([url |-> Object]), Dict([data |-> Dict([url |-> Object])])}
FewVideoBodies ==
    {Dict([unexpected |-> A]), Dict([url |-> A])}

Failures(good) ==
    {Raise("ConnectionError"), Raise("Timeout"), Http(500, Unparseable),
     Http(201, good), Http(HTTP_OK, Unparseable)}
Replies(bodies) == {Http(HTTP_OK, b) : b \in bodies}

(***************************************************************************)
(* State.  KEYAI_API_KEY is read once at import (line 47).  hashSeed and   *)
(* laxStr are fixed per process: the seed of str hashing and whether the   *)
(* installed validation library turns an int into a str.  req[r] is one    *)
(* handler thread: its request, its place in the handler, its locals, the  *)
(* outbound calls it made and what the client got.                         *)
(***************************************************************************)
Reqs == 1..NumReq

Idle ==
    [pc |-> "idle", req |-> NoRequest, calls |-> <<>>, reply |-> NoReply,
     provider |-> "", images |-> <<>>, video_url |-> Str(<<>>),
     result |-> [status |-> 0]]

Init ==
    /\ KEYAI_API_KEY \in {None, Str(<<>>), Str(<<"k">>)}
    /\ hashSeed \in 0..MaxHashSeed
    /\ laxStr \in BOOLEAN
    /\ req = [r \in Reqs |-> Idle]

Config == <<KEYAI_API_KEY, hashSeed, laxStr>>

\* a client posts a request and the first free thread of the pool takes it;
\* alone says whether the requests arrive one at a time
Submit(r, inputs, alone) ==
    /\ req[r].pc = "idle"
    /\ \A o \in Reqs : o < r => req[o].pc # "idle"
    /\ alone => \A o \in Reqs : req[o].pc = "idle"
    /\ \E i \in inputs : req' = [req EXCEPT ![r].pc = "received", ![r].req = i]
    /\ UNCHANGED Config

\* FastAPI validates the body against the request model and answers 422
\* without calling the handler when it does not fit
Validate(r) ==
    /\ req[r].pc = "received"
    /\ req' = IF RequestValid(req[r].req)
              THEN [req EXCEPT ![r].pc = "handler"]
              ELSE [req EXCEPT ![r].pc = "done", ![r].result = [status |-> 422]]
    /\ UNCHANGED Config

\* mutant: `if KEYAI_API_KEY is not None`, so that an empty key is used
StartImages_KeyIsNotNone(r) ==
    /\ req[r].pc = "handler"
    /\ req[r].req.kind = "images"
    /\ req' = IF KEYAI_API_KEY # None
              THEN [req EXCEPT ![r].pc = "awaiting", ![r].provider = MOCK,
                               ![r].images = <<>>,
                               ![r].calls = Append(@, ImagePayload(req[r].req))]
              ELSE [req EXCEPT ![r].pc = "decide", ![r].provider = MOCK,
                               ![r].images = <<>>]
    /\ UNCHANGED Config

\* generate_images, lines 101-118: up to the outbound call
StartImages(r) ==
    /\ req[r].pc = "handler"
    /\ req[r].req.kind = "images"
    /\ req' = IF Truthy(KEYAI_API_KEY)
              THEN [req EXCEPT ![r].pc = "awaiting", ![r].provider = MOCK,
                               ![r].images = <<>>,
                               ![r].calls = Append(@, ImagePayload(req[r].req))]
              ELSE [req EXCEPT ![r].pc = "decide", ![r].provider = MOCK,
                               ![r].images = <<>>]
    /\ UNCHANGED Config

\* mutant: a reply that cannot be used sends the handler back to the call
ReplyImages_Retry(r, replies) ==
    /\ req[r].pc = "awaiting"
    /\ req[r].req.kind = "images"
    /\ \E reply \in replies :
         LET urls == IF Parsed(reply) THEN ExtractImageUrls(reply.json) ELSE <<>>
         IN  req' = IF urls # <<>>
                    THEN [req EXCEPT ![r].pc = "decide", ![r].reply = reply,
                                     ![r].provider = NANO_BANANA,
                                     ![r].images = Prefix(urls, req[r].req.count)]
                    ELSE [req EXCEPT ![r].pc = "handler", ![r].reply = reply]
    /\ UNCHANGED Config

\* generate_images, lines 118-133: the call returns or raises
ReplyImages(r, replies) ==
    /\ req[r].pc = "awaiting"
    /\ req[r].req.kind = "images"
    /\ \E reply \in replies :
         LET urls == IF Parsed(reply) THEN ExtractImageUrls(reply.json) ELSE <<>>
         IN  req' = IF urls # <<>>
                    THEN [req EXCEPT ![r].pc = "decide", ![r].reply = reply,
                                     ![r].provider = NANO_BANANA,
                                     ![r].images = Prefix(urls, req[r].req.count)]
                    ELSE [req EXCEPT ![r].pc = "decide", ![r].reply = reply]
    /\ UNCHANGED Config

\* generate_images, lines 135-142: placeholders when nothing was extracted,
\* then the response model; a field it refuses fails the request (500)
FinishImages(r) ==
    /\ req[r].pc = "decide"
    /\ req[r].req.kind = "images"
    /\ LET q == req[r].req
           images == IF req[r].images = <<>>
                     THEN MockImages(q.prompt, q.count)
                     ELSE req[r].images
       IN  req' = [req EXCEPT
                     ![r].pc = "done",
                     ![r].images = images,
                     ![r].result =
                        IF ImageGenResponseOk(images, laxStr)
                        THEN [status |-> 200,
                              body |-> ImageGenResponse(JobId(JOB_IMG, q.prompt, hashSeed),
                                                        images, req[r].provider)]
                        ELSE [status |-> 500]]
    /\ UNCHANGED Config

\* generate_video, lines 148-165
StartVideo(r) ==
    /\ req[r].pc = "handler"
    /\ req[r].req.kind = "video"
    /\ req' = IF Truthy(KEYAI_API_KEY)
              THEN [req EXCEPT ![r].pc = "awaiting", ![r].provider = MOCK,
                               ![r].video_url = Str(<<>>),
                               ![r].calls = Append(@, VideoPayload(req[r].req))]
              ELSE [req EXCEPT ![r].pc = "decide", ![r].provider = MOCK,
                               ![r].video_url = Str(<<>>)]
    /\ UNCHANGED Config

\* generate_video, lines 165-176
ReplyVideo(r, replies) ==
    /\ req[r].pc = "awaiting"
    /\ req[r].req.kind = "video"
    /\ \E reply \in replies :
         LET video_url == IF Parsed(reply)
                          THEN ExtractVideoUrl(reply.json, req[r].video_url)
                          ELSE req[r].video_url
         IN  req' = [req EXCEPT ![r].pc = "decide", ![r].reply = reply,
                                ![r].video_url = video_url,
                                ![r].provider = IF Truthy(video_url) THEN VEO ELSE @]
    /\ UNCHANGED Config

\* generate_video, lines 178-182
FinishVideo(r) ==
    /\ req[r].pc = "decide"
    /\ req[r].req.kind = "video"
    /\ LET q == req[r].req
           video_url == IF ~Truthy(req[r].video_url) THEN Str(DEMO_VIDEO)
                        ELSE req[r].video_url
       IN  req' = [req EXCEPT
                     ![r].pc = "done",
                     ![r].video_url = video_url,
                     ![r].result =
                        IF VideoGenResponseOk(video_url, laxStr)
                        THEN [status |-> 200,
                              body |-> VideoGenResponse(JobId(JOB_VID, q.script, hashSeed),
                                                        video_url, req[r].provider)]
                        ELSE [status |-> 500]]
    /\ UNCHANGED Config

\* the answer is sent and the thread is free for the next request
Deliver(r) ==
    /\ req[r].pc = "done"
    /\ req' = [req EXCEPT ![r] = Idle]
    /\ UNCHANGED Config

(***************************************************************************)
(* Spec: one request at a time, every shape of reply.                      *)
(***************************************************************************)
ImageInputs == {ImageReq(p, c) : p \in FewPrompts, c \in Counts}
VideoInputs == {VideoReq(s, d) : s \in FewPrompts, d \in Durations}
ImageReplies == Failures(Dict([images |-> List(<<Dict([url |-> A])>>)])) \cup Replies(ImageBodies)
VideoReplies == Failures(Dict([url |-> A])) \cup Replies(VideoBodies)

SubmitOne(r) == Submit(r, ImageInputs \cup VideoInputs, TRUE)
ReplyImagesAny(r) == ReplyImages(r, ImageReplies)
ReplyVideoAny(r) == ReplyVideo(r, VideoReplies)

Next ==
    \E r \in Reqs :
        \/ SubmitOne(r)
        \/ Validate(r)
        \/ StartImages(r)
        \/ ReplyImagesAny(r)
        \/ FinishImages(r)
        \/ StartVideo(r)
        \/ ReplyVideoAny(r)
        \/ FinishVideo(r)
        \/ Deliver(r)

Spec == Init /\ [][Next]_vars

(***************************************************************************)
(* SpecPrompt: one request at a time, every prompt, few shapes of reply.   *)
(***************************************************************************)
PromptImageInputs == {ImageReq(p, c) : p \in Prompts, c \in Counts}
PromptVideoInputs == {VideoReq(s, DURATION_DEFAULT) : s \in Prompts}
FewImageReplies == {Raise("Timeout")} \cup Replies(FewImageBodies)
FewVideoReplies == {Raise("Timeout")} \cup Replies(FewVideoBodies)

SubmitPrompt(r) == Submit(r, PromptImageInputs \cup PromptVideoInputs, TRUE)
ReplyImagesFew(r) == ReplyImages(r, FewImageReplies)
ReplyVideoFew(r) == ReplyVideo(r, FewVideoReplies)

NextPrompt ==
    \E r \in Reqs :
        \/ SubmitPrompt(r)
        \/ Validate(r)
        \/ StartImages(r)
        \/ ReplyImagesFew(r)
        \/ FinishImages(r)
        \/ StartVideo(r)
        \/ ReplyVideoFew(r)
        \/ FinishVideo(r)
        \/ Deliver(r)

SpecPrompt == Init /\ [][NextPrompt]_vars

(***************************************************************************)
(* SpecConc: the handlers run interleaved in the server's thread pool.     *)
(***************************************************************************)
ConcInputs == {ImageReq(<<"a", " ", "a">>, 1), VideoReq(<<"a", "a", "a">>, DURATION_DEFAULT)}

SubmitConc(r) == Submit(r, ConcInputs, FALSE)

NextConc ==
    \E r \in Reqs :
        \/ SubmitConc(r)
        \/ Validate(r)
        \/ StartImages(r)
        \/ ReplyImagesFew(r)
        \/ FinishImages(r)
        \/ StartVideo(r)
        \/ ReplyVideoFew(r)
        \/ FinishVideo(r)
        \/ Deliver(r)

SpecConc == Init /\ [][NextConc]_vars

(***************************************************************************)
(* What the claims speak about.                                            *)
(***************************************************************************)
Done(r) == req[r].pc = "done"
Returned(r) == Done(r) /\ req[r].result.status = 200
IsImages(r) == req[r].req.kind = "images"
IsVideo(r) == req[r].req.kind = "video"
Started(r) == req[r].pc \notin {"idle", "received"}
Replied(r) == req[r].pc \in {"decide", "done"} /\ req[r].calls # <<>>
NoCredential == ~Truthy(KEYAI_API_KEY)

\* the request constraints: count in 1..50, prompt or script of at least 3
\* characters, duration in 4..30
SatisfiesConstraints(q) ==
    IF q.kind = "images"
    THEN q.count \in COUNT_GE..COUNT_LE /\ Len(q.prompt) >= MIN_LENGTH
    ELSE q.duration_seconds \in DURATION_GE..DURATION_LE /\ Len(q.script) >= MIN_LENGTH
Whitespace == {" ", "\t", "\n"}

\* the first value of a sequence of candidates that is not empty, else ""
RECURSIVE FirstNonEmpty(_)
FirstNonEmpty(c) ==
    IF c = <<>> THEN Str(<<>>)
    ELSE IF Truthy(Head(c)) THEN Head(c) ELSE FirstNonEmpty(Tail(c))

\* the URLs one probe of an image reply yields: the list under key k
Probe(data, k) ==
    IF IsDict(data) /\ Has(data, k) /\ IsList(data.m[k])
    THEN UrlsOf(data.m[k].items) ELSE <<>>

\* the probes in the order images, data, stopping at the first that yields
ProbesInOrder(data) ==
    IF Probe(data, "images") # <<>> THEN Probe(data, "images") ELSE Probe(data, "data")

\* the candidates of a video reply in their priority order
VideoCandidates(data) ==
    IF ~IsDict(data) THEN <<>>
    ELSE <<Get(data, "url"), Get(data, "video_url")>>
         \o (IF Has(data, "data") /\ IsDict(data.m["data"])
             THEN <<Get(data.m["data"], "url"), Get(data.m["data"], "video_url")>>
             ELSE <<>>)

\* the reply is a failure, or a parsed body in which no probe finds a URL
NothingUsable(r) ==
    \/ ~Parsed(req[r].reply)
    \/ IsImages(r) /\ Probe(req[r].reply.json, "images") = <<>>
                   /\ Probe(req[r].reply.json, "data") = <<>>
    \/ IsVideo(r) /\ ~Truthy(FirstNonEmpty(VideoCandidates(req[r].reply.json)))

\* the response of the no-credential case to the same request
FallbackBody(q) ==
    IF q.kind = "images"
    THEN [job_id |-> JobId(JOB_IMG, q.prompt, hashSeed),
          images |-> [k \in 1..q.count |-> PlaceholderUrl(SeedBase(q.prompt), k - 1)],
          provider |-> MOCK]
    ELSE [job_id |-> JobId(JOB_VID, q.script, hashSeed),
          video_url |-> DEMO_VIDEO,
          provider |-> MOCK]

\* the seed a placeholder URL with index i carries
SeedIn(url, i) ==
    SubSeq(url, Len(PICSUM_PREFIX) + 1,
           Len(url) - Len(PICSUM_SUFFIX) - Len(Digits(i)) - 1)

IsPlaceholder(url) == Prefix(url, Len(PICSUM_PREFIX)) = PICSUM_PREFIX

(***************************************************************************)
(* C1.  Only a validation error reaches the caller as an error: a request  *)
(* that satisfies the constraints is answered with a result, whatever the  *)
(* provider did.  The handlers break this: a URL field holding an object   *)
(* (or a number, under a strict build) passes the truthiness test and is   *)
(* refused by the response model outside the try block.                    *)
(***************************************************************************)
C1_OnlyValidationErrors ==
    \A r \in Reqs :
        Done(r) /\ SatisfiesConstraints(req[r].req) => req[r].result.status = 200

(***************************************************************************)
(* C2.  Image extraction probes "images", then "data", and stops at the    *)
(* first probe that yields a URL: a reply whose "images" list yields none  *)
(* and whose "data" list holds URLs returns those with the provider's tag. *)
(* The handler reads "data" only when "images" is absent or not a list.    *)
(***************************************************************************)
C2_ProbesInOrder ==
    \A r \in Reqs :
        /\ IsImages(r)
        /\ Replied(r)
        /\ Parsed(req[r].reply)
        /\ ProbesInOrder(req[r].reply.json) # <<>>
        => /\ req[r].provider = NANO_BANANA
           /\ req[r].images = Prefix(ProbesInOrder(req[r].reply.json), req[r].req.count)

(***************************************************************************)
(* C3.  Without a credential every valid request ends in the fallback:     *)
(* exactly count placeholder URLs, or the fixed video URL, tagged "mock".  *)
(***************************************************************************)
C3_NoCredentialFallback ==
    \A r \in Reqs :
        Done(r) /\ NoCredential /\ SatisfiesConstraints(req[r].req)
        => /\ req[r].result.status = 200
           /\ req[r].result.body.provider = MOCK
           /\ req[r].calls = <<>>
           /\ IsImages(r) =>
                /\ Len(req[r].result.body.images) = req[r].req.count
                /\ \A i \in 1..req[r].req.count :
                     IsPlaceholder(req[r].result.body.images[i])
           /\ IsVideo(r) => req[r].result.body.video_url = DEMO_VIDEO

C3_Witness ==
    \E r \in Reqs :
        /\ Done(r) /\ NoCredential /\ IsImages(r)
        /\ req[r].req.count = COUNT_LE
        /\ Len(req[r].req.prompt) > SEED_LEN
        /\ req[r].result.status = 200
        /\ Len(req[r].result.body.images) = COUNT_LE

(***************************************************************************)
(* C4.  Every result returned has a non-empty images sequence, or a        *)
(* non-empty videoUrl, whatever the credential and the provider's reply.   *)
(***************************************************************************)
C4_NeverEmpty ==
    \A r \in Reqs :
        Returned(r)
        => /\ IsImages(r) => req[r].result.body.images # <<>>
           /\ IsVideo(r) => req[r].result.body.video_url # <<>>

C4_Witness ==
    \E r \in Reqs :
        /\ Returned(r) /\ IsImages(r)
        /\ req[r].reply = Http(HTTP_OK, Dict([images |-> List(<<Dict([url |-> Str(<<>>)])>>)]))
        /\ req[r].result.body.images # <<>>

(***************************************************************************)
(* C5.  A request that violates the constraints ends in a validation       *)
(* error; no provider call and no fallback generation happens for it, and  *)
(* none happens for any request before it is validated.                    *)
(***************************************************************************)
C5_ValidationFirst ==
    \A r \in Reqs :
        /\ req[r].pc = "received"
           => req[r].calls = <<>> /\ req[r].images = <<>> /\ req[r].provider = ""
        /\ Started(r) /\ ~SatisfiesConstraints(req[r].req)
           => /\ Done(r)
              /\ req[r].result.status = 422
              /\ req[r].calls = <<>>
              /\ req[r].images = <<>>
              /\ req[r].video_url = Str(<<>>)
              /\ req[r].provider = ""

C5_Witness ==
    \E r \in Reqs :
        /\ Done(r) /\ IsImages(r)
        /\ req[r].req.count = COUNT_LE + 1
        /\ Len(req[r].req.prompt) >= MIN_LENGTH
        /\ Truthy(KEYAI_API_KEY)
        /\ req[r].result.status = 422

(***************************************************************************)
(* C6.  The tag is "mock" exactly when the output is the fallback's: a     *)
(* failed call and a reply in which no probe finds a URL give the response *)
(* of the no-credential case, and a response with the provider's URLs is   *)
(* never tagged "mock".                                                    *)
(***************************************************************************)
C6_MockIffFallback ==
    \A r \in Reqs :
        /\ Replied(r) /\ Done(r) /\ NothingUsable(r)
           => req[r].result = [status |-> 200, body |-> FallbackBody(req[r].req)]
        /\ Returned(r) /\ IsImages(r)
           => (req[r].result.body.provider = MOCK
               <=> req[r].result.body.images = FallbackBody(req[r].req).images)
        /\ Returned(r) /\ IsVideo(r)
           => (req[r].result.body.provider = MOCK
               <=> req[r].result.body.video_url = DEMO_VIDEO)

C6_Witness ==
    \E r \in Reqs :
        /\ Returned(r) /\ IsImages(r)
        /\ req[r].reply = Http(HTTP_OK, Dict([unexpected |-> Str(<<"s", "h", "a", "p", "e">>)]))
        /\ req[r].result.body.provider = MOCK

(***************************************************************************)
(* C7.  A request makes at most one outbound call, and none without a      *)
(* credential; after a failed or unusable reply it goes to the fallback    *)
(* and does not call again, also when requests run interleaved.            *)
(***************************************************************************)
C7_AtMostOneCall ==
    \A r \in Reqs :
        /\ Len(req[r].calls) <= 1
        /\ NoCredential => req[r].calls = <<>>
        /\ req[r].pc = "awaiting" => Len(req[r].calls) = 1
        /\ Replied(r) /\ NothingUsable(r)
           => Len(req[r].calls) = 1 /\ req[r].provider = MOCK

C7_Witness ==
    \E r, o \in Reqs :
        /\ r # o
        /\ Done(r) /\ req[r].reply = Raise("Timeout") /\ Len(req[r].calls) = 1
        /\ req[o].pc = "decide" /\ Len(req[o].calls) = 1

(***************************************************************************)
(* C8.  A returned image result is never longer than the requested count:  *)
(* count placeholders on fallback; with the provider's output, the first   *)
(* min(count, extracted) URLs in the provider's order, never padded.       *)
(***************************************************************************)
Min(a, b) == IF a < b THEN a ELSE b

C8_TruncatedNeverPadded ==
    \A r \in Reqs :
        Returned(r) /\ IsImages(r)
        => LET out == req[r].result.body.images
               count == req[r].req.count
           IN  /\ Len(out) <= count
               /\ req[r].result.body.provider = MOCK => Len(out) = count
               /\ req[r].result.body.provider # MOCK =>
                    LET urls == ExtractImageUrls(req[r].reply.json)
                    IN  /\ Len(out) = Min(count, Len(urls))
                        /\ \A i \in 1..Len(out) : out[i] = StrField(urls[i])

C8_Witness ==
    \E r \in Reqs :
        /\ Returned(r) /\ IsImages(r)
        /\ req[r].result.body.provider = NANO_BANANA
        /\ req[r].req.count = 3
        /\ req[r].result.body.images = <<<<"b">>, <<"a">>>>

(***************************************************************************)
(* C9.  Video extraction returns the first non-empty value among the       *)
(* top-level "url", the top-level "video_url", and then "url" and          *)
(* "video_url" of a nested "data" object; when none is non-empty the       *)
(* fixed placeholder URL is returned.                                      *)
(***************************************************************************)
C9_VideoPriority ==
    \A r \in Reqs :
        IsVideo(r) /\ Replied(r) /\ Parsed(req[r].reply)
        => LET first == FirstNonEmpty(VideoCandidates(req[r].reply.json))
           IN  /\ req[r].pc = "decide" => req[r].video_url = first
               /\ Done(r) /\ Truthy(first) => req[r].video_url = first
               /\ Done(r) /\ ~Truthy(first)
                  => /\ req[r].result.status = 200
                     /\ req[r].result.body.video_url = DEMO_VIDEO

C9_Witness ==
    \E r \in Reqs :
        /\ Returned(r) /\ IsVideo(r)
        /\ req[r].reply = Http(HTTP_OK, Dict([url |-> Str(<<>>), data |-> Dict([video_url |-> B])]))
        /\ req[r].result.body.video_url = <<"b">>

(***************************************************************************)
(* C10.  The seed of the placeholder URLs has at most 40 characters and    *)
(* no whitespace character, and URL i carries the seed and the index i,    *)
(* so the URLs of one response differ.  The handler replaces the space     *)
(* only: a tab or a newline of the prompt stays in the seed.               *)
(***************************************************************************)
C10_SeedHasNoWhitespace ==
    \A r \in Reqs :
        Returned(r) /\ IsImages(r) /\ req[r].result.body.provider = MOCK
        => LET out == req[r].result.body.images
           IN  /\ \A i \in 1..Len(out) :
                    LET seed == SeedIn(out[i], i - 1)
                    IN  /\ Len(seed) <= SEED_LEN
                        /\ \A k \in 1..Len(seed) : seed[k] \notin Whitespace
                        /\ out[i] = PICSUM_PREFIX \o seed \o <<"-">> \o Digits(i - 1)
                                    \o PICSUM_SUFFIX
                        /\ seed = SeedIn(out[1], 0)
               /\ \A i, j \in 1..Len(out) : i # j => out[i] # out[j]

====
